---- MODULE Spec2Model ----
(***************************************************************************)
(* Model of the review store of coffee_ratings (src/app/main.py,           *)
(* src/app/models.py): the venues and reviews tables, the aggregation      *)
(* helper update_venue_averages and the four writing request handlers      *)
(* add_review, edit_review_save, duplicate_update and delete_review.       *)
(*                                                                         *)
(* Strings are sequences of one-character strings, so that str.strip()     *)
(* and str.lower() are computed and not assumed.  Floats are exact         *)
(* rationals <<numerator, denominator>> in lowest terms; Python's None is  *)
(* the empty tuple.  Rounding of IEEE doubles is not modelled.             *)
(***************************************************************************)
EXTENDS Integers, Sequences, FiniteSets, TLC

\* ---------------------------------------------------------------- bounds
MaxReviews == 2
MaxVenues == 2

\* ------------------------------------------------------- request inputs
Names == {<<" ", "A">>}
Locations == {<<"x">>, <<"y", " ">>}
\* The tokens add_review is submitted with (one device, with and without a
\* stray blank), and the tokens the other requests are submitted with (the
\* same, and a foreign device).
OwnPins == {<<"p">>, <<" ", "p">>}
Pins == OwnPins \cup {<<"q">>}
ReviewerNames == {<<"n", " ">>}
NotesInputs == {<<" ", "t">>}
\* visit_date is a string in the code; dates are numbered here
Dates == {1, 2}
\* the current date, the day every request of the model is handled on (the
\* day datetime.utcnow gives for created_at): visit date 2 is in the future
Today == 1
\* <<coffee, cost, service, hygiene, ambience, food>>
ScoreInputs == {<<5, 4, 5, 5, 5, 0>>, <<3, 3, 3, 3, 3, 3>>}
ReviewIds == 1..MaxReviews
VenueIds == 1..MaxVenues

\* ------------------------------------------------------------- strings
RECURSIVE lstrip(_)
lstrip(s) == IF s # <<>> /\ Head(s) = " " THEN lstrip(Tail(s)) ELSE s

RECURSIVE rstrip(_)
rstrip(s) ==
    IF s # <<>> /\ s[Len(s)] = " " THEN rstrip(SubSeq(s, 1, Len(s) - 1)) ELSE s

strip(s) == rstrip(lstrip(s))

lower_char(c) ==
    CASE c = "A" -> "a"
      [] c = "X" -> "x"
      [] c = "Y" -> "y"
      [] OTHER -> c

lower(s) == [k \in 1..Len(s) |-> lower_char(s[k])]

\* ----------------------------------------------------------- rationals
None == <<>>

RECURSIVE gcd(_, _)
gcd(a, b) == IF b = 0 THEN a ELSE gcd(b, a % b)

\* n / d as a float, for n >= 0 and d > 0
div(n, d) == LET g == gcd(n, d) IN <<n \div g, d \div g>>

fadd(x, y) == div(x[1] * y[2] + y[1] * x[2], x[2] * y[2])

fdiv(x, n) == div(x[1], x[2] * n)

RECURSIVE sum(_)
sum(values) == IF values = <<>> THEN 0 ELSE Head(values) + sum(Tail(values))

RECURSIVE fsum(_)
fsum(values) ==
    IF values = <<>> THEN <<0, 1>> ELSE fadd(Head(values), fsum(Tail(values)))

\* ----------------------------------------------------------------- state
\* venues:  the venues table, a sequence indexed by Venue.id (venues are
\*          never deleted); name, location and the seven averages.
\* reviews: the reviews table, a function from Review.id to the row.
\* last:    the last completed request: its handler, its outcome (the msg
\*          of the redirect, or the page rendered) and the venue ids it
\*          passed to update_venue_averages.
\* pending: the add_review request suspended after its venue query, if any
\*          (used by SpecConc only).
VARIABLES venues, reviews, last, pending

vars == <<venues, reviews, last, pending>>

Venue(name, location) ==
    [name |-> name, location |-> location,
     avg_coffee |-> None, avg_cost |-> None, avg_service |-> None,
     avg_hygiene |-> None, avg_ambience |-> None, avg_food |-> None,
     avg_total_score |-> None]

NoReviews == [i \in {} |-> None]

Init ==
    /\ venues = <<>>
    /\ reviews = NoReviews
    /\ last = [op |-> "init", outcome |-> "none", recomputed |-> {}]
    /\ pending = <<>>

\* ------------------------------------------------- aggregation engine
\* db.query(Review).filter(Review.venue_id == venue_id).all(), in id order
RECURSIVE ids_in_order(_)
ids_in_order(ids) ==
    IF ids = {} THEN <<>>
    ELSE LET m == CHOOSE i \in ids : \A j \in ids : i <= j
         IN <<m>> \o ids_in_order(ids \ {m})

query_reviews(rs, venue_id) ==
    LET ids == ids_in_order({i \in DOMAIN rs : rs[i].venue_id = venue_id})
    IN [k \in 1..Len(ids) |-> rs[ids[k]]]

\* safe_avg returning 0 for no values
safe_avg_zero(values) ==
    IF values # <<>> THEN div(sum(values), Len(values)) ELSE <<0, 1>>

safe_avg(values) ==
    IF values # <<>> THEN div(sum(values), Len(values)) ELSE None

column(rows, field) == [k \in 1..Len(rows) |-> rows[k][field]]

\* the branch for no reviews, storing 0 for every average
clear_averages_zero(venue) ==
    [venue EXCEPT !.avg_coffee = <<0, 1>>, !.avg_cost = <<0, 1>>,
                  !.avg_service = <<0, 1>>, !.avg_hygiene = <<0, 1>>,
                  !.avg_ambience = <<0, 1>>, !.avg_food = <<0, 1>>,
                  !.avg_total_score = <<0, 1>>]

\* update_venue_averages, the branch for no reviews
clear_averages(venue) ==
    [venue EXCEPT !.avg_coffee = None, !.avg_cost = None,
                  !.avg_service = None, !.avg_hygiene = None,
                  !.avg_ambience = None, !.avg_food = None,
                  !.avg_total_score = None]

\* update_venue_averages, the branch for the reviews rows
store_averages(venue, rows) ==
    LET weighted_scores ==
            [k \in 1..Len(rows) |->
                div(rows[k].total_score, rows[k].category_count)]
    IN [venue EXCEPT
          !.avg_coffee = safe_avg(column(rows, "coffee")),
          !.avg_cost = safe_avg(column(rows, "cost")),
          !.avg_service = safe_avg(column(rows, "service")),
          !.avg_hygiene = safe_avg(column(rows, "hygiene")),
          !.avg_ambience = safe_avg(column(rows, "ambience")),
          !.avg_food =
              safe_avg(SelectSeq(column(rows, "food"), LAMBDA f : f # 0)),
          !.avg_total_score =
              fdiv(fsum(weighted_scores), Len(weighted_scores))]

update_venue_averages(vs, rs, venue_id) ==
    LET rows == query_reviews(rs, venue_id)
    IN IF rows = <<>>
       THEN IF venue_id \notin DOMAIN vs
            THEN vs
            ELSE [vs EXCEPT ![venue_id] = clear_averages(@)]
       ELSE [vs EXCEPT ![venue_id] = store_averages(@, rows)]

\* ------------------------------------------------------ venue lookup
\* The ids the name/location query of add_review and edit_review_save can
\* return with .first(): any matching row (the query has no ORDER BY),
\* or 0 for no row.
venue_first(vs, venue_name, location) ==
    LET matches == {v \in DOMAIN vs :
                       /\ lower(vs[v].name) = lower(strip(venue_name))
                       /\ lower(vs[v].location) = lower(strip(location))}
    IN IF matches = {} THEN {0} ELSE matches

\* A new row's INTEGER PRIMARY KEY: one more than the largest id in use.
next_id(ids) == IF ids = {} THEN 1 ELSE (CHOOSE i \in ids : \A j \in ids : j <= i) + 1

Result(op, outcome, recomputed) ==
    [op |-> op, outcome |-> outcome, recomputed |-> recomputed]

\* ------------------------------------------------------------ handlers
\* delete_review comparing the tokens after trimming them
delete_review_trimmed(review_id, identity_pin) ==
    /\ UNCHANGED pending
    /\ IF review_id \notin DOMAIN reviews
       THEN /\ last' = Result("delete_review", "notfound", {})
            /\ UNCHANGED <<venues, reviews>>
       ELSE IF strip(reviews[review_id].identity_pin) # strip(identity_pin)
       THEN /\ last' = Result("delete_review", "denied", {})
            /\ UNCHANGED <<venues, reviews>>
       ELSE LET venue_id == reviews[review_id].venue_id
                rs == [i \in DOMAIN reviews \ {review_id} |-> reviews[i]]
            IN /\ reviews' = rs
               /\ venues' = update_venue_averages(venues, rs, venue_id)
               /\ last' = Result("delete_review", "deleted", {venue_id})

delete_review(review_id, identity_pin) ==
    /\ UNCHANGED pending
    /\ IF review_id \notin DOMAIN reviews
       THEN /\ last' = Result("delete_review", "notfound", {})
            /\ UNCHANGED <<venues, reviews>>
       ELSE IF reviews[review_id].identity_pin # identity_pin
       THEN /\ last' = Result("delete_review", "denied", {})
            /\ UNCHANGED <<venues, reviews>>
       ELSE LET venue_id == reviews[review_id].venue_id
                rs == [i \in DOMAIN reviews \ {review_id} |-> reviews[i]]
            IN /\ reviews' = rs
               /\ venues' = update_venue_averages(venues, rs, venue_id)
               /\ last' = Result("delete_review", "deleted", {venue_id})

\* add_review from "if not venue" on; found is the venue query's result
add_review_from_venue(found, venue_name, location, visit_date, reviewer_name, identity_pin, s, notes) ==
    LET vs == IF found = 0
              THEN Append(venues, Venue(strip(venue_name), strip(location)))
              ELSE venues
        venue_id == IF found = 0 THEN Len(venues) + 1 ELSE found
        existing == {i \in DOMAIN reviews :
                        /\ reviews[i].identity_pin = identity_pin
                        /\ reviews[i].venue_id = venue_id
                        /\ reviews[i].visit_date = visit_date}
        review == [identity_pin |-> strip(identity_pin),
                   reviewer_name |-> strip(reviewer_name),
                   venue_id |-> venue_id,
                   venue_name_raw |-> vs[venue_id].name,
                   venue_location_raw |-> vs[venue_id].location,
                   visit_date |-> visit_date,
                   coffee |-> s[1], cost |-> s[2], service |-> s[3],
                   hygiene |-> s[4], ambience |-> s[5], food |-> s[6],
                   total_score |-> s[1] + s[2] + s[3] + s[4] + s[5] + s[6],
                   category_count |-> 6,
                   notes |-> strip(notes)]
        new_id == next_id(DOMAIN reviews)
        rs == [i \in DOMAIN reviews \cup {new_id} |->
                  IF i = new_id THEN review ELSE reviews[i]]
    IN /\ Len(vs) <= MaxVenues
       /\ IF existing # {}
          THEN /\ venues' = vs
               /\ UNCHANGED reviews
               /\ last' = Result("add_review", "duplicate_prompt", {})
          ELSE /\ Cardinality(DOMAIN reviews) < MaxReviews
               /\ reviews' = rs
               /\ venues' = update_venue_averages(vs, rs, venue_id)
               /\ last' = Result("add_review", "created", {venue_id})

add_review(venue_name, location, visit_date, reviewer_name, identity_pin, s, notes) ==
    /\ UNCHANGED pending
    /\ \E found \in venue_first(venues, venue_name, location) :
          add_review_from_venue(found, venue_name, location, visit_date,
                                reviewer_name, identity_pin, s, notes)

edit_review_save(review_id, venue_name, location, visit_date, reviewer_name, identity_pin, s, notes) ==
    /\ UNCHANGED pending
    /\ IF review_id \notin DOMAIN reviews
       THEN /\ last' = Result("edit_review_save", "notfound", {})
            /\ UNCHANGED <<venues, reviews>>
       ELSE IF strip(identity_pin) # strip(reviews[review_id].identity_pin)
       THEN /\ last' = Result("edit_review_save", "denied", {})
            /\ UNCHANGED <<venues, reviews>>
       ELSE \E found \in venue_first(venues, venue_name, location) :
            LET vs == IF found = 0
                      THEN Append(venues,
                                  Venue(strip(venue_name), strip(location)))
                      ELSE venues
                venue_id == IF found = 0 THEN Len(venues) + 1 ELSE found
                old_venue_id == reviews[review_id].venue_id
                rs == [reviews EXCEPT
                         ![review_id].venue_id = venue_id,
                         ![review_id].venue_name_raw = vs[venue_id].name,
                         ![review_id].venue_location_raw = vs[venue_id].location,
                         ![review_id].reviewer_name = strip(reviewer_name),
                         ![review_id].visit_date = visit_date,
                         ![review_id].coffee = s[1],
                         ![review_id].cost = s[2],
                         ![review_id].service = s[3],
                         ![review_id].hygiene = s[4],
                         ![review_id].ambience = s[5],
                         ![review_id].food = s[6],
                         ![review_id].notes = strip(notes),
                         ![review_id].total_score =
                             s[1] + s[2] + s[3] + s[4] + s[5] + s[6],
                         ![review_id].category_count = 6]
                vs1 == update_venue_averages(vs, rs, venue_id)
            IN /\ Len(vs) <= MaxVenues
               /\ reviews' = rs
               /\ venues' = IF old_venue_id # 0 /\ old_venue_id # venue_id
                            THEN update_venue_averages(vs1, rs, old_venue_id)
                            ELSE vs1
               /\ last' = Result("edit_review_save", "updated",
                                 {venue_id, old_venue_id})

duplicate_update(existing_review_id, venue_id, visit_date, reviewer_name, identity_pin, s, notes) ==
    /\ UNCHANGED pending
    /\ IF existing_review_id \notin DOMAIN reviews
       THEN /\ last' = Result("duplicate_update", "notfound", {})
            /\ UNCHANGED <<venues, reviews>>
       ELSE IF reviews[existing_review_id].identity_pin # identity_pin
       THEN /\ last' = Result("duplicate_update", "denied", {})
            /\ UNCHANGED <<venues, reviews>>
       ELSE LET rs == [reviews EXCEPT
                         ![existing_review_id].reviewer_name =
                             strip(reviewer_name),
                         ![existing_review_id].visit_date = visit_date,
                         ![existing_review_id].coffee = s[1],
                         ![existing_review_id].cost = s[2],
                         ![existing_review_id].service = s[3],
                         ![existing_review_id].hygiene = s[4],
                         ![existing_review_id].ambience = s[5],
                         ![existing_review_id].food = s[6],
                         ![existing_review_id].notes = strip(notes)]
            IN /\ reviews' = rs
               /\ venues' = update_venue_averages(venues, rs, venue_id)
               /\ last' = Result("duplicate_update", "updated", {venue_id})

\* ------------------------------------------- requests one at a time
DeleteReview ==
    \E review_id \in ReviewIds, identity_pin \in Pins :
        delete_review(review_id, identity_pin)

AddReview ==
    \E venue_name \in Names, location \in Locations, visit_date \in Dates,
       reviewer_name \in ReviewerNames, identity_pin \in OwnPins,
       s \in ScoreInputs, notes \in NotesInputs :
        add_review(venue_name, location, visit_date, reviewer_name,
                   identity_pin, s, notes)

EditReviewSave ==
    \E review_id \in ReviewIds, venue_name \in Names, location \in Locations,
       visit_date \in Dates, reviewer_name \in ReviewerNames,
       identity_pin \in Pins, s \in ScoreInputs, notes \in NotesInputs :
        edit_review_save(review_id, venue_name, location, visit_date,
                         reviewer_name, identity_pin, s, notes)

DuplicateUpdate ==
    \E existing_review_id \in ReviewIds, venue_id \in VenueIds,
       visit_date \in Dates, reviewer_name \in ReviewerNames,
       identity_pin \in Pins, s \in ScoreInputs, notes \in NotesInputs :
        duplicate_update(existing_review_id, venue_id, visit_date,
                         reviewer_name, identity_pin, s, notes)

Next == AddReview \/ EditReviewSave \/ DuplicateUpdate \/ DeleteReview

Spec == Init /\ [][Next]_vars

\* ------------------------------------ two add_review requests at once
\* Handlers run on the server's thread pool, each with its own session.
\* One add_review request is followed through its venue query alone
\* (add_review_query) and then through the rest of the handler
\* (add_review_resume), with whole requests of other threads in between.
\* pending holds what the suspended handler has used so far: the submitted
\* name and location and the row the query returned.  The form fields it
\* reads only later are drawn when it resumes.
add_review_query(venue_name, location) ==
    /\ pending = <<>>
    /\ \E found \in venue_first(venues, venue_name, location) :
          pending' = <<[venue_name |-> venue_name, location |-> location,
                        found |-> found]>>
    /\ UNCHANGED <<venues, reviews, last>>

add_review_resume(visit_date, reviewer_name, identity_pin, s, notes) ==
    /\ pending # <<>>
    /\ pending' = <<>>
    /\ add_review_from_venue(pending[1].found, pending[1].venue_name,
                             pending[1].location, visit_date, reviewer_name,
                             identity_pin, s, notes)

AddReviewQuery ==
    \E venue_name \in Names, location \in Locations :
        add_review_query(venue_name, location)

AddReviewResume ==
    \E visit_date \in Dates, reviewer_name \in ReviewerNames,
       identity_pin \in OwnPins, s \in ScoreInputs, notes \in NotesInputs :
        add_review_resume(visit_date, reviewer_name, identity_pin, s, notes)

NextConc == AddReviewQuery \/ AddReviewResume \/ AddReview \/ EditReviewSave

SpecConc == Init /\ [][NextConc]_vars

\* ------------------------------------------------- properties: helpers
ReviewsOf(venue_id) == {i \in DOMAIN reviews : reviews[i].venue_id = venue_id}

AvgFields ==
    {"avg_coffee", "avg_cost", "avg_service", "avg_hygiene", "avg_ambience",
     "avg_food", "avg_total_score"}

RECURSIVE Total(_, _)
Total(ids, field) ==
    IF ids = {} THEN 0
    ELSE LET i == CHOOSE j \in ids : TRUE
         IN reviews[i][field] + Total(ids \ {i}, field)

\* avg is the number total / n
IsMean(avg, total, n) == avg # None /\ avg[1] * n = avg[2] * total

ParticipatingSum(r) ==
    r.coffee + r.cost + r.service + r.hygiene + r.ambience
        + (IF r.food # 0 THEN r.food ELSE 0)

ParticipatingCount(r) == IF r.food = 0 THEN 5 ELSE 6

\* sum over the reviews ids of ParticipatingSum / ParticipatingCount
RECURSIVE PerReviewTotal(_)
PerReviewTotal(ids) ==
    IF ids = {} THEN <<0, 1>>
    ELSE LET i == CHOOSE j \in ids : TRUE
         IN fadd(div(ParticipatingSum(reviews[i]), ParticipatingCount(reviews[i])),
                 PerReviewTotal(ids \ {i}))

\* the venues the last request recomputed and that have reviews
Recomputed == {v \in last.recomputed \cap DOMAIN venues : ReviewsOf(v) # {}}

\* C1: after every completed request, every venue's seven stored averages
\* are what update_venue_averages computes from the venue's current reviews.
C1_AveragesUpToDate ==
    \A v \in DOMAIN venues :
        \A f \in AvgFields :
            venues[v][f] = update_venue_averages(venues, reviews, v)[v][f]

\* C2: at most one review exists for each (identity token, venue, visit
\* date) triple.
C2_OneReviewPerTriple ==
    \A i, j \in DOMAIN reviews :
        (/\ reviews[i].identity_pin = reviews[j].identity_pin
         /\ reviews[i].venue_id = reviews[j].venue_id
         /\ reviews[i].visit_date = reviews[j].visit_date) => i = j

\* C3: the overall average update_venue_averages stores for a venue with
\* reviews is the mean of the reviews' participating sum / participating
\* count (5 when food is 0, else 6); with the reviews (5,4,5,5,5,food 0)
\* and (3,3,3,3,3,food 3) it is 3.9.
C3_OverallIsMeanOfPerReviewAverages ==
    \A v \in Recomputed :
        /\ venues[v].avg_total_score =
               fdiv(PerReviewTotal(ReviewsOf(v)), Cardinality(ReviewsOf(v)))
        /\ ({<<reviews[i].coffee, reviews[i].cost, reviews[i].service,
               reviews[i].hygiene, reviews[i].ambience, reviews[i].food>> :
                 i \in ReviewsOf(v)} = {<<5, 4, 5, 5, 5, 0>>, <<3, 3, 3, 3, 3, 3>>}
            /\ Cardinality(ReviewsOf(v)) = 2
            /\ last.op = "add_review")
           => venues[v].avg_total_score = <<39, 10>>

\* C4: every stored review has category_count 5 if its food score is 0 and
\* 6 otherwise.
C4_CategoryCountFollowsFood ==
    \A i \in DOMAIN reviews :
        reviews[i].category_count = (IF reviews[i].food = 0 THEN 5 ELSE 6)

\* C5: every stored review's total_score is the sum of its stored
\* participating category scores.
C5_TotalIsParticipatingSum ==
    \A i \in DOMAIN reviews :
        reviews[i].total_score = ParticipatingSum(reviews[i])

\* C6: for a venue with reviews, update_venue_averages stores the mean of
\* each of coffee, cost, service, hygiene and ambience over all the venue's
\* reviews, and for food the mean over the reviews with food # 0, or None
\* when there is no such review.
C6_CategoryMeans ==
    \A v \in Recomputed :
        LET ids == ReviewsOf(v)
            fed == {i \in ids : reviews[i].food # 0}
            n == Cardinality(ids)
        IN /\ IsMean(venues[v].avg_coffee, Total(ids, "coffee"), n)
           /\ IsMean(venues[v].avg_cost, Total(ids, "cost"), n)
           /\ IsMean(venues[v].avg_service, Total(ids, "service"), n)
           /\ IsMean(venues[v].avg_hygiene, Total(ids, "hygiene"), n)
           /\ IsMean(venues[v].avg_ambience, Total(ids, "ambience"), n)
           /\ IF fed = {}
              THEN venues[v].avg_food = None
              ELSE IsMean(venues[v].avg_food, Total(fed, "food"), Cardinality(fed))

\* a recomputed venue with a review without food and a review with food
C6_Witness ==
    \E v \in Recomputed :
        /\ \E i \in ReviewsOf(v) : reviews[i].food = 0
        /\ \E i \in ReviewsOf(v) : reviews[i].food # 0

\* C7: every venue that has no review has all seven averages None.
C7_NoReviewsNoAverages ==
    \A v \in DOMAIN venues :
        ReviewsOf(v) = {} => \A f \in AvgFields : venues[v][f] = None

\* edit_review_save has moved a venue's only review to another venue
C7_Witness ==
    /\ last.op = "edit_review_save"
    /\ last.outcome = "updated"
    /\ \E v \in last.recomputed : v \in DOMAIN venues /\ ReviewsOf(v) = {}
    /\ \E v \in last.recomputed : v \in DOMAIN venues /\ ReviewsOf(v) # {}

\* the request is refused and nothing is written
Refused == last'.outcome = "denied" /\ UNCHANGED <<venues, reviews>>

\* C8 as stated: delete_review, edit_review_save and duplicate_update, given
\* a token that is not equal to the token stored on the target review,
\* answer 'denied' and leave the venues and the reviews as they were: in no
\* state can such a request take a step that is not this refusal.
C8_UnequalTokenRefused ==
    /\ \A review_id \in DOMAIN reviews, identity_pin \in Pins :
          identity_pin # reviews[review_id].identity_pin
              => ~ENABLED (delete_review(review_id, identity_pin) /\ ~Refused)
    /\ \A review_id \in DOMAIN reviews, identity_pin \in Pins :
          identity_pin # reviews[review_id].identity_pin
              => \A venue_name \in Names, location \in Locations,
                    visit_date \in Dates, reviewer_name \in ReviewerNames,
                    s \in ScoreInputs, notes \in NotesInputs :
                     ~ENABLED (/\ edit_review_save(review_id, venue_name,
                                                   location, visit_date,
                                                   reviewer_name,
                                                   identity_pin, s, notes)
                               /\ ~Refused)
    /\ \A existing_review_id \in DOMAIN reviews, identity_pin \in Pins :
          identity_pin # reviews[existing_review_id].identity_pin
              => \A venue_id \in VenueIds, visit_date \in Dates,
                    reviewer_name \in ReviewerNames, s \in ScoreInputs,
                    notes \in NotesInputs :
                     ~ENABLED (/\ duplicate_update(existing_review_id,
                                                   venue_id, visit_date,
                                                   reviewer_name,
                                                   identity_pin, s, notes)
                               /\ ~Refused)

\* C8 as amended: the same, where edit_review_save compares the two tokens
\* after trimming the blanks around them.
C8_MismatchedTokenRefused ==
    /\ \A review_id \in DOMAIN reviews, identity_pin \in Pins :
          identity_pin # reviews[review_id].identity_pin
              => ~ENABLED (delete_review(review_id, identity_pin) /\ ~Refused)
    /\ \A review_id \in DOMAIN reviews, identity_pin \in Pins :
          strip(identity_pin) # strip(reviews[review_id].identity_pin)
              => \A venue_name \in Names, location \in Locations,
                    visit_date \in Dates, reviewer_name \in ReviewerNames,
                    s \in ScoreInputs, notes \in NotesInputs :
                     ~ENABLED (/\ edit_review_save(review_id, venue_name,
                                                   location, visit_date,
                                                   reviewer_name,
                                                   identity_pin, s, notes)
                               /\ ~Refused)
    /\ \A existing_review_id \in DOMAIN reviews, identity_pin \in Pins :
          identity_pin # reviews[existing_review_id].identity_pin
              => \A venue_id \in VenueIds, visit_date \in Dates,
                    reviewer_name \in ReviewerNames, s \in ScoreInputs,
                    notes \in NotesInputs :
                     ~ENABLED (/\ duplicate_update(existing_review_id,
                                                   venue_id, visit_date,
                                                   reviewer_name,
                                                   identity_pin, s, notes)
                               /\ ~Refused)

\* edit_review_save has refused a request on a stored review
C8_Witness ==
    /\ last.op = "edit_review_save"
    /\ last.outcome = "denied"
    /\ reviews # NoReviews

\* C9: duplicate_update, given a venue_id or a visit_date that is not the
\* stored review's, answers 'denied' and leaves the review as it was, also
\* when the token matches.
C9_StaleConfirmationRefused ==
    [][last'.op = "duplicate_update" =>
            \A existing_review_id \in ReviewIds, venue_id \in VenueIds,
               visit_date \in Dates, reviewer_name \in ReviewerNames,
               identity_pin \in Pins, s \in ScoreInputs,
               notes \in NotesInputs :
                (/\ existing_review_id \in DOMAIN reviews
                 /\ \/ venue_id # reviews[existing_review_id].venue_id
                    \/ visit_date # reviews[existing_review_id].visit_date
                 /\ duplicate_update(existing_review_id, venue_id, visit_date,
                                     reviewer_name, identity_pin, s, notes))
                    => (last'.outcome = "denied" /\ UNCHANGED reviews)]_vars

\* the stored venues whose name and location are the submitted ones,
\* trimmed and without regard to case
Candidates(venue_name, location) ==
    {v \in DOMAIN venues :
        /\ lower(strip(venues[v].name)) = lower(strip(venue_name))
        /\ lower(strip(venues[v].location)) = lower(strip(location))}

\* C10: with two or more stored venues matching the submitted name and
\* location, add_review and edit_review_save signal AmbiguousVenue and
\* write neither a venue nor a review.
C10_AmbiguousVenueSignalled ==
    [][/\ last'.op = "add_review" =>
            \A venue_name \in Names, location \in Locations,
               visit_date \in Dates, reviewer_name \in ReviewerNames,
               identity_pin \in OwnPins, s \in ScoreInputs,
               notes \in NotesInputs :
                (/\ Cardinality(Candidates(venue_name, location)) >= 2
                 /\ add_review(venue_name, location, visit_date,
                               reviewer_name, identity_pin, s, notes))
                    => (/\ last'.outcome = "ambiguous"
                        /\ UNCHANGED <<venues, reviews>>)
       /\ last'.op = "edit_review_save" =>
            \A review_id \in ReviewIds, venue_name \in Names,
               location \in Locations, visit_date \in Dates,
               reviewer_name \in ReviewerNames, identity_pin \in Pins,
               s \in ScoreInputs, notes \in NotesInputs :
                (/\ review_id \in DOMAIN reviews
                 /\ strip(identity_pin) = strip(reviews[review_id].identity_pin)
                 /\ Cardinality(Candidates(venue_name, location)) >= 2
                 /\ edit_review_save(review_id, venue_name, location,
                                     visit_date, reviewer_name, identity_pin,
                                     s, notes))
                    => (/\ last'.outcome = "ambiguous"
                        /\ UNCHANGED <<venues, reviews>>)]_vars

\* the request is rejected as an invalid date and nothing is written
InvalidDate == last'.outcome = "invalid_date" /\ UNCHANGED <<venues, reviews>>

\* C11: add_review, edit_review_save (on a stored review, with its owner's
\* token) and duplicate_update (likewise), given a visit date later than
\* the current date, answer InvalidDate and write nothing; so no stored
\* review has a visit date later than the current date.
C11_FutureDateRejected ==
    [][/\ last'.op = "add_review" =>
            \A venue_name \in Names, location \in Locations,
               visit_date \in Dates, reviewer_name \in ReviewerNames,
               identity_pin \in OwnPins, s \in ScoreInputs,
               notes \in NotesInputs :
                (/\ visit_date > Today
                 /\ add_review(venue_name, location, visit_date,
                               reviewer_name, identity_pin, s, notes))
                    => InvalidDate
       /\ last'.op = "edit_review_save" =>
            \A review_id \in ReviewIds, venue_name \in Names,
               location \in Locations, visit_date \in Dates,
               reviewer_name \in ReviewerNames, identity_pin \in Pins,
               s \in ScoreInputs, notes \in NotesInputs :
                (/\ visit_date > Today
                 /\ review_id \in DOMAIN reviews
                 /\ strip(identity_pin) = strip(reviews[review_id].identity_pin)
                 /\ edit_review_save(review_id, venue_name, location,
                                     visit_date, reviewer_name, identity_pin,
                                     s, notes))
                    => InvalidDate
       /\ last'.op = "duplicate_update" =>
            \A existing_review_id \in ReviewIds, venue_id \in VenueIds,
               visit_date \in Dates, reviewer_name \in ReviewerNames,
               identity_pin \in Pins, s \in ScoreInputs,
               notes \in NotesInputs :
                (/\ visit_date > Today
                 /\ existing_review_id \in DOMAIN reviews
                 /\ identity_pin = reviews[existing_review_id].identity_pin
                 /\ duplicate_update(existing_review_id, venue_id, visit_date,
                                     reviewer_name, identity_pin, s, notes))
                    => InvalidDate
       /\ \A i \in DOMAIN reviews' : reviews'[i].visit_date <= Today]_vars

====
